---------------------------- MODULE Spec2Model ----------------------------
(***************************************************************************)
(* nda2ynab: conversion of Nordea CSV exports to YNAB CSV, emitting only   *)
(* the transactions that are new since the previously processed export.    *)
(* The model follows src/src/main.rs: one run of main(), step by step.     *)
(***************************************************************************)
EXTENDS Naturals, Sequences, FiniteSets

(***************************************************************************)
(* Bounds of the model                                                     *)
(***************************************************************************)
\* longest newest export (in CSV records) explored by Spec
MaxRows == 4
\* longest previous export (in CSV records) explored by Spec
MaxPrevRows == 3
\* largest directory (in entries) explored by SpecSel
MaxFiles == 3
\* export timestamps are drawn from 1..MaxDate
MaxDate == 2

(***************************************************************************)
(* Option values: None / Some(x)                                           *)
(***************************************************************************)
None == << >>
Some(x) == << x >>
IsSome(o) == o # << >>
Unwrap(o) == o[1]

(***************************************************************************)
(* Data                                                                    *)
(***************************************************************************)
\* struct NdaRow {date, amount, description}, #[derive(PartialEq)]
NdaRow(d, a, t) == [date |-> d, amount |-> a, description |-> t]

InvalidDate == "Invalid date"

RowA == NdaRow("02.01.2024", "-1,00", "Shop")
RowB == NdaRow("01.01.2024", "-2,50", "Cafe")
\* an authorisation hold: same amount and description as RowA
RowP == NdaRow(InvalidDate, "-1,00", "Shop")

\* one record of an export file as csv deserialization sees it: Ok(row) or Err
OkLine(r) == [ok |-> TRUE, row |-> r]
BadLine == [ok |-> FALSE, row |-> NdaRow("", "", "")]

\* the records the exports of Spec are made of
Lines == {OkLine(RowA), OkLine(RowB), OkLine(RowP)}

\* struct YnabRow {date, payee, memo, amount}
YnabRow(d, p, m, a) == [date |-> d, payee |-> p, memo |-> m, amount |-> a]

IBANs == {"FI11 1111 1111 1111 11", "FI22 2222 2222 2222 22"}

\* a directory entry: an export name the regex and a timestamp format accept,
\* or any other name
ExportName(i, t) == [csv |-> TRUE, iban |-> i, stamp |-> t]
OtherName == [csv |-> FALSE, iban |-> "", stamp |-> 0]

DirEntries == {OtherName} \cup {ExportName(i, t) : i \in IBANs, t \in 1..MaxDate}

\* out.csv before the run: absent, or left behind by an earlier run
NoFile == [exists |-> FALSE, records |-> << >>]
StaleOut == [exists |-> TRUE, records |-> << YnabRow("31.12.2023", "Old", "", "-9,99") >>]

SeqsUpTo(S, n) == UNION {[1..k -> S] : k \in 0..n}

(***************************************************************************)
(* Pure helpers                                                            *)
(***************************************************************************)
\* read_nda_csv: deserialize, drop records that fail, drop "Invalid date" rows
Deserialized(raw) ==
    LET okLines == SelectSeq(raw, LAMBDA l : l.ok)
    IN  [i \in 1..Len(okLines) |-> okLines[i].row]

\* a slip: the "Invalid date" filter is missing
read_nda_csv_Unfiltered(raw) == Deserialized(raw)


read_nda_csv(raw) == SelectSeq(Deserialized(raw), LAMBDA r : ~(r.date = InvalidDate))

\* struct ParsedFileName {file_name, path, date, iban}; path is the index in dir
ParsedFileName(e, p) == [path |-> p, date |-> e.stamp, iban |-> e.iban]

\* the filter_map over the directory listing
RECURSIVE ParseFrom(_, _)
ParseFrom(d, p) ==
    IF p > Len(d) THEN << >>
    ELSE (IF d[p].csv THEN << ParsedFileName(d[p], p) >> ELSE << >>) \o ParseFrom(d, p + 1)

ParseDir(d) == ParseFrom(d, 1)

\* matches.sort_by(|a, b| b.date.cmp(&a.date)): stable, descending by date
RECURSIVE InsertDesc(_, _)
InsertDesc(x, s) ==
    IF s = << >> THEN << x >>
    ELSE IF Head(s).date >= x.date THEN << Head(s) >> \o InsertDesc(x, Tail(s))
    ELSE << x >> \o s

RECURSIVE SortByDateDesc(_)
SortByDateDesc(s) ==
    IF s = << >> THEN << >>
    ELSE InsertDesc(s[Len(s)], SortByDateDesc(SubSeq(s, 1, Len(s) - 1)))

\* matches.first()
First(s) == IF s = << >> THEN None ELSE Some(s[1])

\* a slip: the newest file is not skipped
Skip1_Nothing(s) == s

\* matches.iter().skip(1)
Skip1(s) == IF s = << >> THEN << >> ELSE Tail(s)

\* .find(|m| m.iban == newest_file.iban)
RECURSIVE FindIban(_, _)
FindIban(s, iban) ==
    IF s = << >> THEN None
    ELSE IF Head(s).iban = iban THEN Some(Head(s))
    ELSE FindIban(Tail(s), iban)

FindPrev(ms, newest) == FindIban(Skip1(ms), newest.iban)

\* a slip: only the first row is counted
Count_FirstOnly(s, x) == IF s = << >> THEN 0 ELSE 1

\* rows.iter().filter(|r| r == &first_row).count()
RECURSIVE Count(_, _)
Count(s, x) ==
    IF s = << >> THEN 0
    ELSE (IF Head(s) = x THEN 1 ELSE 0) + Count(Tail(s), x)

\* newest_rows.iter().positions(|r| r == &transaction): 0-based, ascending
RECURSIVE PositionsFrom(_, _, _)
PositionsFrom(s, x, i) ==
    IF i > Len(s) THEN << >>
    ELSE (IF s[i] = x THEN << i - 1 >> ELSE << >>) \o PositionsFrom(s, x, i + 1)

Positions(s, x) == PositionsFrom(s, x, 1)

\* .rev()
Rev(s) == [i \in 1..Len(s) |-> s[Len(s) + 1 - i]]

\* .nth(n): 0-based, None past the end
Nth(s, n) == IF n + 1 <= Len(s) THEN Some(s[n + 1]) ELSE None

\* a slip: <= for <
TooFewMatches_OrEqual(match_count, repetitions) == match_count <= repetitions

\* match_count < prev_file_trx.repetitions
TooFewMatches(match_count, repetitions) == match_count < repetitions

\* a slip: the positions are not reversed before nth()
CutIndex_NotReversed(positions_matches, repetitions) == Nth(positions_matches, repetitions - 1)

\* positions_matches.into_iter().rev().nth(repetitions - 1)
CutIndex(positions_matches, repetitions) == Nth(Rev(positions_matches), repetitions - 1)

\* a slip: the slice includes the cut index
Surviving_Inclusive(newest, index) ==
    IF IsSome(index) THEN SubSeq(newest, 1, Unwrap(index) + 1) ELSE newest

\* newest_rows[0..index].to_vec(), or all of newest_rows
Surviving(newest, index) ==
    IF IsSome(index) THEN SubSeq(newest, 1, Unwrap(index)) ELSE newest

\* .map(|r| YnabRow {date: r.date, payee: r.description, memo: "", amount: r.amount})
ToYnab(r) == YnabRow(r.date, r.description, "", r.amount)


(***************************************************************************)
(* State of one run of main()                                              *)
(***************************************************************************)
VARIABLES
    dir,        \* the directory listing (input)
    files,      \* files[p]: the CSV records of directory entry p (input)
    outFile,    \* out.csv in the working directory
    pc,         \* position in main()
    err,        \* the error main() returned, "" if none
    matches,
    newest_file,
    prev_file,
    prev_file_trx,
    newest_rows,
    first_previously_processed_index,
    rows,
    wtr,        \* the csv writer: None until created, then Some(records taken)
    num_trx,
    printed     \* the count in the summary line, None until printed

vars == << dir, files, outFile, pc, err, matches, newest_file, prev_file,
           prev_file_trx, newest_rows, first_previously_processed_index,
           rows, wtr, num_trx, printed >>

inputs == << dir, files >>

\* struct PrevFileNewestTransaction {transaction, repetitions}
PrevFileNewestTransaction(t, n) == [transaction |-> t, repetitions |-> n]

Locals0 ==
    /\ pc = "scan"
    /\ err = ""
    /\ matches = << >>
    /\ newest_file = None
    /\ prev_file = None
    /\ prev_file_trx = None
    /\ newest_rows = << >>
    /\ first_previously_processed_index = None
    /\ rows = << >>
    /\ wtr = None
    /\ num_trx = 0
    /\ printed = None

\* directories of Spec: empty, a first run, a run with a previous export
ResolveDirs ==
    LET i == "FI11 1111 1111 1111 11"
    IN  { << >>,
          << ExportName(i, MaxDate) >>,
          << ExportName(i, 1), ExportName(i, MaxDate) >> }

\* the exports of a directory of Spec: the older file is the previous export
ExportsOf(d) ==
    IF Len(d) = 2
    THEN {<< p, c >> : p \in SeqsUpTo(Lines, MaxPrevRows), c \in SeqsUpTo(Lines, MaxRows)}
    ELSE [1..Len(d) -> SeqsUpTo(Lines, MaxRows)]

\* out.csv of an earlier run is in place; SpecSel also starts without it
Init ==
    /\ dir \in ResolveDirs
    /\ files \in ExportsOf(dir)
    /\ outFile = StaleOut
    /\ Locals0

\* file contents of SpecSel
SelectContents == { << BadLine >>, << BadLine, OkLine(RowA) >> }

InitSel ==
    /\ dir \in SeqsUpTo(DirEntries, MaxFiles)
    /\ files \in [1..Len(dir) -> SelectContents]
    /\ outFile \in {NoFile, StaleOut}
    /\ Locals0

Fail(e) == pc' = "failed" /\ err' = e

(***************************************************************************)
(* main(), lines 85-109: list the directory and parse the file names       *)
(***************************************************************************)
ScanDir ==
    /\ pc = "scan"
    /\ matches' = ParseDir(dir)
    /\ pc' = "select"
    /\ UNCHANGED << inputs, outFile, err, newest_file, prev_file, prev_file_trx,
                    newest_rows, first_previously_processed_index, rows, wtr,
                    num_trx, printed >>

\* fs::read_dir(args.path)? fails
ScanDirFail ==
    /\ pc = "scan"
    /\ Fail("read_dir")
    /\ UNCHANGED << inputs, outFile, matches, newest_file, prev_file, prev_file_trx,
                    newest_rows, first_previously_processed_index, rows, wtr,
                    num_trx, printed >>

(***************************************************************************)
(* lines 111-123: sort, take the newest file, look for the previous one    *)
(***************************************************************************)
SelectExports ==
    /\ pc = "select"
    /\ LET sorted == SortByDateDesc(matches)
       IN  /\ IsSome(First(sorted))
           /\ matches' = sorted
           /\ newest_file' = First(sorted)
           /\ prev_file' = FindPrev(sorted, Unwrap(First(sorted)))
    /\ pc' = "read_prev"
    /\ UNCHANGED << inputs, outFile, err, prev_file_trx, newest_rows,
                    first_previously_processed_index, rows, wtr, num_trx, printed >>

\* matches.first().ok_or("Could not find any matching files")?
SelectFail ==
    /\ pc = "select"
    /\ LET sorted == SortByDateDesc(matches)
       IN  /\ ~IsSome(First(sorted))
           /\ matches' = sorted
    /\ Fail("no_matching_files")
    /\ UNCHANGED << inputs, outFile, newest_file, prev_file, prev_file_trx,
                    newest_rows, first_previously_processed_index, rows, wtr,
                    num_trx, printed >>

(***************************************************************************)
(* lines 124-148: the newest transaction of the previous file              *)
(***************************************************************************)
ReadPrev ==
    /\ pc = "read_prev"
    /\ IsSome(prev_file)
    /\ LET prows == read_nda_csv(files[Unwrap(prev_file).path])
       IN  /\ IsSome(First(prows))
           /\ prev_file_trx' = Some(PrevFileNewestTransaction(
                                      Unwrap(First(prows)),
                                      Count(prows, Unwrap(First(prows)))))
    /\ pc' = "read_newest"
    /\ UNCHANGED << inputs, outFile, err, matches, newest_file, prev_file,
                    newest_rows, first_previously_processed_index, rows, wtr,
                    num_trx, printed >>

\* rows.first().ok_or("... does not contain any valid rows")?
ReadPrevNoRows ==
    /\ pc = "read_prev"
    /\ IsSome(prev_file)
    /\ ~IsSome(First(read_nda_csv(files[Unwrap(prev_file).path])))
    /\ Fail("no_valid_rows")
    /\ UNCHANGED << inputs, outFile, matches, newest_file, prev_file, prev_file_trx,
                    newest_rows, first_previously_processed_index, rows, wtr,
                    num_trx, printed >>

\* read_nda_csv(&prev_file.path)? fails to open the file
ReadPrevFail ==
    /\ pc = "read_prev"
    /\ IsSome(prev_file)
    /\ Fail("read_prev")
    /\ UNCHANGED << inputs, outFile, matches, newest_file, prev_file, prev_file_trx,
                    newest_rows, first_previously_processed_index, rows, wtr,
                    num_trx, printed >>

\* no previously processed file found
NoPrev ==
    /\ pc = "read_prev"
    /\ ~IsSome(prev_file)
    /\ prev_file_trx' = None
    /\ pc' = "read_newest"
    /\ UNCHANGED << inputs, outFile, err, matches, newest_file, prev_file,
                    newest_rows, first_previously_processed_index, rows, wtr,
                    num_trx, printed >>

(***************************************************************************)
(* line 150                                                                *)
(***************************************************************************)
ReadNewest ==
    /\ pc = "read_newest"
    /\ newest_rows' = read_nda_csv(files[Unwrap(newest_file).path])
    /\ pc' = "resolve"
    /\ UNCHANGED << inputs, outFile, err, matches, newest_file, prev_file,
                    prev_file_trx, first_previously_processed_index, rows, wtr,
                    num_trx, printed >>

ReadNewestFail ==
    /\ pc = "read_newest"
    /\ Fail("read_newest")
    /\ UNCHANGED << inputs, outFile, matches, newest_file, prev_file, prev_file_trx,
                    newest_rows, first_previously_processed_index, rows, wtr,
                    num_trx, printed >>

(***************************************************************************)
(* lines 152-187: remove the previously processed rows                     *)
(***************************************************************************)
Resolve ==
    /\ pc = "resolve"
    /\ LET index ==
             IF IsSome(prev_file_trx)
             THEN CutIndex(Positions(newest_rows, Unwrap(prev_file_trx).transaction),
                           Unwrap(prev_file_trx).repetitions)
             ELSE None
       IN  /\ IsSome(prev_file_trx) =>
                ~TooFewMatches(Len(Positions(newest_rows, Unwrap(prev_file_trx).transaction)),
                               Unwrap(prev_file_trx).repetitions)
           /\ first_previously_processed_index' = index
           /\ rows' = Surviving(newest_rows, index)
    /\ pc' = "open"
    /\ UNCHANGED << inputs, outFile, err, matches, newest_file, prev_file,
                    prev_file_trx, newest_rows, wtr, num_trx, printed >>

\* a slip: the writer is created before the resolver runs
ResolveFail_WriterFirst ==
    /\ pc = "resolve"
    /\ IsSome(prev_file_trx)
    /\ TooFewMatches(Len(Positions(newest_rows, Unwrap(prev_file_trx).transaction)),
                     Unwrap(prev_file_trx).repetitions)
    /\ outFile' = [exists |-> TRUE, records |-> << >>]
    /\ Fail("non_overlapping")
    /\ UNCHANGED << inputs, matches, newest_file, prev_file, prev_file_trx,
                    newest_rows, first_previously_processed_index, rows, wtr,
                    num_trx, printed >>

\* "Aborting due to non-overlapping transactions in main and previous CSV files."
ResolveFail ==
    /\ pc = "resolve"
    /\ IsSome(prev_file_trx)
    /\ TooFewMatches(Len(Positions(newest_rows, Unwrap(prev_file_trx).transaction)),
                     Unwrap(prev_file_trx).repetitions)
    /\ Fail("non_overlapping")
    /\ UNCHANGED << inputs, outFile, matches, newest_file, prev_file, prev_file_trx,
                    newest_rows, first_previously_processed_index, rows, wtr,
                    num_trx, printed >>

(***************************************************************************)
(* lines 189-208: write out.csv                                            *)
(***************************************************************************)
\* WriterBuilder::new().from_path("out.csv")?: creates or truncates the file
OpenWriter ==
    /\ pc = "open"
    /\ outFile' = [exists |-> TRUE, records |-> << >>]
    /\ wtr' = Some(<< >>)
    /\ pc' = "serialize"
    /\ UNCHANGED << inputs, err, matches, newest_file, prev_file, prev_file_trx,
                    newest_rows, first_previously_processed_index, rows, num_trx,
                    printed >>

OpenWriterFail ==
    /\ pc = "open"
    /\ Fail("open_out")
    /\ UNCHANGED << inputs, outFile, matches, newest_file, prev_file, prev_file_trx,
                    newest_rows, first_previously_processed_index, rows, wtr,
                    num_trx, printed >>

\* the records the writer has taken when serialize() first fails at record
\* k + 1 (k = Len(rs): no failure); collect() stops at the first Err
Serialized(rs, k) == [i \in 1..k |-> ToYnab(rs[i])]

\* let num_trx = rows.len(); let _: Result<Vec<_>, _> = rows...collect();
\* the Result is dropped
Serialize ==
    /\ pc = "serialize"
    /\ num_trx' = Len(rows)
    /\ \E k \in 0..Len(rows) : wtr' = Some(Serialized(rows, k))
    /\ pc' = "flush"
    /\ UNCHANGED << inputs, outFile, err, matches, newest_file, prev_file,
                    prev_file_trx, newest_rows, first_previously_processed_index,
                    rows, printed >>

\* wtr.flush()?; println!("{} transactions written to out.csv.", num_trx); Ok(())
Flush ==
    /\ pc = "flush"
    /\ outFile' = [exists |-> TRUE, records |-> Unwrap(wtr)]
    /\ printed' = Some(num_trx)
    /\ pc' = "done"
    /\ UNCHANGED << inputs, err, matches, newest_file, prev_file, prev_file_trx,
                    newest_rows, first_previously_processed_index, rows, wtr,
                    num_trx >>

\* wtr.flush()? fails: some of the buffered records may have reached the file
FlushFail ==
    /\ pc = "flush"
    /\ \E j \in 0..Len(Unwrap(wtr)) :
          outFile' = [exists |-> TRUE, records |-> SubSeq(Unwrap(wtr), 1, j)]
    /\ Fail("flush")
    /\ UNCHANGED << inputs, matches, newest_file, prev_file, prev_file_trx,
                    newest_rows, first_previously_processed_index, rows, wtr,
                    num_trx, printed >>

Next ==
    \/ ScanDir
    \/ ScanDirFail
    \/ SelectExports
    \/ SelectFail
    \/ ReadPrev
    \/ ReadPrevNoRows
    \/ ReadPrevFail
    \/ NoPrev
    \/ ReadNewest
    \/ ReadNewestFail
    \/ Resolve
    \/ ResolveFail
    \/ OpenWriter
    \/ OpenWriterFail
    \/ Serialize
    \/ Flush
    \/ FlushFail

\* runs over the contents of the exports
Spec == Init /\ [][Next]_vars

\* runs over the directory listing
SpecSel == InitSel /\ [][Next]_vars

(***************************************************************************)
(* Vocabulary of the properties                                            *)
(***************************************************************************)
\* the run got past the selection of the exports
Selected ==
    \/ pc \in {"read_prev", "read_newest", "resolve", "open", "serialize", "flush", "done"}
    \/ pc = "failed" /\ err \notin {"read_dir", "no_matching_files"}

\* the run got past the resolver: a cut point was computed
Resolved ==
    \/ pc \in {"open", "serialize", "flush", "done"}
    \/ pc = "failed" /\ err \in {"open_out", "flush"}

\* the run read the newest export
NewestRead ==
    \/ Resolved
    \/ pc = "resolve"
    \/ pc = "failed" /\ err = "non_overlapping"

\* the errors of section 7 that are selection or reconciliation errors
ResolverErrors == {"no_valid_rows", "non_overlapping"}

Pending(r) == r.date = InvalidDate

\* previousRows and currentRows of the resolver
PreviousRows ==
    IF IsSome(prev_file) THEN read_nda_csv(files[Unwrap(prev_file).path]) ELSE << >>

CurrentRows ==
    IF IsSome(newest_file) THEN read_nda_csv(files[Unwrap(newest_file).path]) ELSE << >>

\* the positions (1-based) of s that hold x, and their number
Where(s, x) == {i \in DOMAIN s : s[i] = x}
Occ(s, x) == Cardinality(Where(s, x))

Anchor == PreviousRows[1]
RepetitionCount == Occ(PreviousRows, Anchor)

\* the 0-based cut index the resolver computed
Cut == Unwrap(first_previously_processed_index)

Prefix(s, n) == SubSeq(s, 1, n)
Suffix(s, n) == SubSeq(s, n + 1, Len(s))

(***************************************************************************)
(* C1                                                                      *)
(***************************************************************************)
\* C1: with a previous export and no failure, the cut index is the
\* repetitionCount-th position, counted backward from the last match, among
\* the positions of currentRows equal to the anchor, and the emitted rows
\* are currentRows[0 .. cutIndex): the last repetitionCount anchor-equal rows
\* are not emitted, every earlier one is.
C1_CutIndex ==
    (Resolved /\ IsSome(prev_file)) =>
        LET cur == CurrentRows
            hits == Where(cur, Anchor)
        IN  /\ IsSome(first_previously_processed_index)
            /\ Cut + 1 \in hits
            /\ Cardinality({i \in hits : i >= Cut + 1}) = RepetitionCount
            /\ rows = Prefix(cur, Cut)
            /\ Occ(rows, Anchor) = Cardinality(hits) - RepetitionCount

\* a run with two known copies of the anchor and a third, newer one, which is emitted
C1_Witness ==
    /\ pc = "done"
    /\ IsSome(prev_file)
    /\ RepetitionCount = 2
    /\ Occ(CurrentRows, Anchor) = 3
    /\ Occ(rows, Anchor) = 1
    /\ Len(rows) = 2

(***************************************************************************)
(* C2                                                                      *)
(***************************************************************************)
\* C2 as stated: when the current export holds exactly the r copies of the
\* anchor among newer rows, the rows emitted are exactly the newer rows,
\* wherever the r copies are placed.
C2_AnyPlacement ==
    (Resolved /\ IsSome(prev_file) /\ Occ(CurrentRows, Anchor) = RepetitionCount) =>
        rows = SelectSeq(CurrentRows, LAMBDA r : r # Anchor)

\* C2 as amended: when the current export is n newer rows followed by a block
\* that starts with the anchor and holds exactly r rows equal to it
\* (contiguous or separated by older rows), the run does not fail in the
\* resolver and emits exactly the n newer rows.
C2_NewerRowsFirst ==
    (IsSome(prev_file) /\ NewestRead) =>
        LET cur == CurrentRows
            anchor == Anchor
            r == RepetitionCount
        IN  \A n \in 0..Len(cur) :
                ( /\ n < Len(cur)
                  /\ cur[n + 1] = anchor
                  /\ Occ(Suffix(cur, n), anchor) = r ) =>
                    /\ ~(pc = "failed" /\ err = "non_overlapping")
                    /\ Resolved => rows = Prefix(cur, n)

\* one newer row, then two copies of the anchor separated by an older row
C2_Witness ==
    /\ pc = "done"
    /\ IsSome(prev_file)
    /\ PreviousRows = << RowA, RowB, RowA >>
    /\ CurrentRows = << RowB, RowA, RowB, RowA >>
    /\ rows = << RowB >>

(***************************************************************************)
(* C3                                                                      *)
(***************************************************************************)
\* the current export does not hold the anchor often enough, or there is no anchor
Gap ==
    \/ PreviousRows = << >>
    \/ Occ(CurrentRows, Anchor) < RepetitionCount

\* C3: with a previous export selected, the resolver fails exactly when
\* previousRows is empty or currentRows holds fewer rows equal to the anchor
\* than repetitionCount; otherwise it yields a cut index and the run goes on
\* to writing.
C3_FatalExactly ==
    /\ (pc = "failed" /\ err \in ResolverErrors) => (IsSome(prev_file) /\ Gap)
    /\ (pc = "failed" /\ err = "no_valid_rows") <=>
           (pc = "failed" /\ err # "read_prev" /\ IsSome(prev_file) /\ PreviousRows = << >>)
    /\ (IsSome(prev_file) /\ NewestRead /\ Gap) => (pc = "resolve" \/ err = "non_overlapping")
    /\ (IsSome(prev_file) /\ Resolved) =>
           (~Gap /\ IsSome(first_previously_processed_index))

\* repetitionCount is 2, the anchor appears once in the current export: fatal
C3_Witness ==
    /\ pc = "failed"
    /\ err = "non_overlapping"
    /\ RepetitionCount = 2
    /\ Occ(CurrentRows, Anchor) = 1

(***************************************************************************)
(* C4                                                                      *)
(***************************************************************************)
\* C4 as stated: for any row sequence R, a run without previous export emits
\* |R| rows, and a run whose previous and current exports both hold R yields
\* cut index 0 and emits no row.
C4_AnyRows ==
    /\ (Resolved /\ ~IsSome(prev_file)) => Len(rows) = Len(CurrentRows)
    /\ (IsSome(prev_file) /\ PreviousRows = CurrentRows) =>
           /\ ~(pc = "failed" /\ err \in ResolverErrors)
           /\ Resolved => (first_previously_processed_index = Some(0) /\ rows = << >>)

\* C4 as amended: the same for every R that holds at least one usable row;
\* with no usable row the second run is the fatal "no valid rows" error.
C4_Idempotent ==
    /\ (Resolved /\ ~IsSome(prev_file)) => Len(rows) = Len(CurrentRows)
    /\ (IsSome(prev_file) /\ PreviousRows = CurrentRows /\ CurrentRows # << >>) =>
           /\ ~(pc = "failed" /\ err \in ResolverErrors)
           /\ Resolved => (first_previously_processed_index = Some(0) /\ rows = << >>)
    /\ (IsSome(prev_file) /\ PreviousRows = << >> /\ pc = "failed") =>
           err \in {"no_valid_rows", "read_prev"}

\* the same three rows, twice the anchor among them, in both exports
C4_Witness ==
    /\ pc = "done"
    /\ IsSome(prev_file)
    /\ PreviousRows = CurrentRows
    /\ CurrentRows = << RowA, RowB, RowA >>
    /\ rows = << >>
    /\ printed = Some(0)

(***************************************************************************)
(* C5                                                                      *)
(***************************************************************************)
\* the k-th (1-based) position of s whose row is not pending
KthSettled(s, k) ==
    CHOOSE i \in DOMAIN s :
        /\ ~Pending(s[i])
        /\ Cardinality({j \in 1..i : ~Pending(s[j])}) = k

\* t is s without its pending rows, in the order of s
SettledOf(t, s) ==
    /\ Len(t) = Cardinality({i \in DOMAIN s : ~Pending(s[i])})
    /\ \A k \in DOMAIN t : t[k] = s[KthSettled(s, k)]

\* C5: a row dated "Invalid date" is never written, never emitted, never the
\* anchor (the anchor is the first non-pending row of the previous export)
\* and never counted; the other rows keep their order.
C5_PendingExcluded ==
    /\ \A i \in DOMAIN rows : ~Pending(rows[i])
    /\ \A i \in DOMAIN outFile.records : outFile.records[i].date # InvalidDate
    /\ IsSome(wtr) => \A i \in DOMAIN Unwrap(wtr) : Unwrap(wtr)[i].date # InvalidDate
    /\ IsSome(prev_file_trx) =>
           LET prev == Deserialized(files[Unwrap(prev_file).path])
               trx == Unwrap(prev_file_trx)
           IN  /\ ~Pending(trx.transaction)
               /\ trx.transaction = prev[KthSettled(prev, 1)]
               /\ trx.repetitions = Occ(prev, trx.transaction)
    /\ NewestRead =>
           /\ SettledOf(newest_rows, Deserialized(files[Unwrap(newest_file).path]))
           /\ IsSome(prev_file_trx) =>
                  \A i \in Where(newest_rows, Unwrap(prev_file_trx).transaction) :
                      ~Pending(newest_rows[i])
    /\ Resolved => rows = Prefix(newest_rows, Len(rows))

\* pending rows head the previous export and sit among the new rows
C5_Witness ==
    /\ pc = "done"
    /\ IsSome(prev_file)
    /\ files[Unwrap(prev_file).path] = << OkLine(RowP), OkLine(RowA) >>
    /\ files[Unwrap(newest_file).path] =
           << OkLine(RowB), OkLine(RowP), OkLine(RowB), OkLine(RowA) >>
    /\ outFile.records = << ToYnab(RowB), ToYnab(RowB) >>

(***************************************************************************)
(* C6                                                                      *)
(***************************************************************************)
\* the successfully parsed export files
ParsedSet == {ParsedFileName(dir[p], p) : p \in {q \in DOMAIN dir : dir[q].csv}}

\* the entries the previous export is to be chosen from
Candidates(cur) == {f \in ParsedSet : f.path # cur.path /\ f.iban = cur.iban}

\* C6: the current export has the greatest timestamp of all parsed files; the
\* previous export is a file other than the current one, of the same
\* account, with the greatest timestamp among those, hence not later than
\* the current one; with no such file there is no previous export and no
\* error for it; with no parsed file the run fails.
C6_Selection ==
    /\ Selected =>
           /\ IsSome(newest_file)
           /\ Unwrap(newest_file) \in ParsedSet
           /\ \A f \in ParsedSet : f.date <= Unwrap(newest_file).date
           /\ IsSome(prev_file) <=> Candidates(Unwrap(newest_file)) # {}
           /\ IsSome(prev_file) =>
                  /\ Unwrap(prev_file) \in Candidates(Unwrap(newest_file))
                  /\ \A f \in Candidates(Unwrap(newest_file)) : f.date <= Unwrap(prev_file).date
                  /\ Unwrap(prev_file).date <= Unwrap(newest_file).date
           /\ (~IsSome(prev_file) /\ pc = "failed") => err \in {"read_newest", "open_out", "flush"}
    /\ (pc = "failed" /\ err = "no_matching_files") => ParsedSet = {}
    /\ ParsedSet = {} => (pc \in {"scan", "select"} \/ (pc = "failed" /\ ~Selected))

\* three exports: the newest, an older one of the same account listed first,
\* and one of another account in between
C6_Witness ==
    /\ pc = "done"
    /\ Len(dir) = 3
    /\ Unwrap(newest_file).path = 3
    /\ IsSome(prev_file)
    /\ Unwrap(prev_file).path = 1
    /\ dir[2].csv
    /\ dir[2].iban # dir[3].iban
    /\ dir[2].stamp = dir[1].stamp

(***************************************************************************)
(* C7                                                                      *)
(***************************************************************************)
\* C7: without a previous export, out.csv holds one record per non-pending
\* row of the current export, in source order, date and amount unchanged,
\* payee the description, memo empty.
C7_AllRowsWritten ==
    (pc = "done" /\ ~IsSome(prev_file)) =>
        /\ Len(outFile.records) = Len(CurrentRows)
        /\ \A i \in DOMAIN outFile.records :
               outFile.records[i] =
                   [date |-> CurrentRows[i].date, payee |-> CurrentRows[i].description,
                    memo |-> "", amount |-> CurrentRows[i].amount]

(***************************************************************************)
(* C8                                                                      *)
(***************************************************************************)
\* the ways to split the current rows into new rows and a non-empty prefix
\* of the previous rows: the number of new rows of each
Splits(cur, prev) ==
    {n \in 0..Len(cur) :
        /\ n < Len(cur)
        /\ Len(cur) - n <= Len(prev)
        /\ Suffix(cur, n) = Prefix(prev, Len(cur) - n)}

\* C8: when the current rows are new rows N followed by a non-empty prefix S
\* of the previous rows, a run that gets past the resolver emits exactly N.
\* Stated for current rows that split in one way only: where several splits
\* fit, no output equals every N.
C8_NoSilentLoss ==
    (IsSome(prev_file) /\ Resolved) =>
        LET cur == CurrentRows
            splits == Splits(cur, PreviousRows)
        IN  \A n \in splits : splits = {n} => rows = Prefix(cur, n)

(***************************************************************************)
(* C9                                                                      *)
(***************************************************************************)
\* C9: in a run that ends with "no matching files", "no valid rows" or the
\* reconciliation error, out.csv is never created, truncated or written: it
\* is as it was before the run; the writer exists only once the cut point
\* has been computed.
C9_NoOutputOnFatal ==
    /\ (pc = "failed" /\ err \in ResolverErrors \cup {"no_matching_files"}) =>
           (wtr = None /\ outFile \in {NoFile, StaleOut})
    /\ wtr = None => outFile \in {NoFile, StaleOut}
    /\ IsSome(wtr) => (Resolved /\ pc # "open" /\ err # "open_out")

\* the reconciliation error with the output of an earlier run in place
C9_Witness ==
    /\ pc = "failed"
    /\ err = "non_overlapping"
    /\ outFile = StaleOut
    /\ RepetitionCount = 2
    /\ Occ(CurrentRows, Anchor) = 1

(***************************************************************************)
(* C10                                                                     *)
(***************************************************************************)
\* C10: a run that ends successfully prints the number of records written to
\* out.csv, and no run ends successfully after a record failed to serialize.
C10_CountIsWritten ==
    pc = "done" =>
        /\ printed = Some(Len(outFile.records))
        /\ Len(Unwrap(wtr)) = Len(rows)

=============================================================================
